---------------------------- MODULE Spec2Model ----------------------------
(***************************************************************************)
(* Model of the cheque-amount converter (core script and the copy embedded *)
(* in test-from-csv.js).                                                   *)
(*                                                                         *)
(* A JavaScript string is a sequence of one-character strings.  The CJK    *)
(* glyphs are written as upper-case names:                                 *)
(*   LING  zero glyph          YI ER SAN SI WU LIU QI BA JIU  digits 1..9  *)
(*   CAN   the variant glyph for 3 used by the copy in test-from-csv.js    *)
(*   SHI BAI QIAN  10, 100, 1000     WAN  10^4   YI_E8  10^8   ZHAO 10^12  *)
(*   YUAN JIAO FEN  currency units   ZHENG  whole-amount marker            *)
(* A fixed message is a one-element sequence holding the message's name.   *)
(*                                                                         *)
(* A non-negative integer Number is the sequence of its decimal digits     *)
(* (values 0..9, most significant first, no leading zero, <<>> for 0), so  *)
(* that 12- and 13-digit amounts are exact.  A 4-digit section is an Int.  *)
(***************************************************************************)
EXTENDS Integers, Sequences, FiniteSets, TLC

VARIABLES numStr, result, called, actual, tested,
          other, otherResult, otherCalled, text, once, twice, passes

vars == <<numStr, result, called, actual, tested,
          other, otherResult, otherCalled, text, once, twice, passes>>

(***************************************************************************)
(* Bounds of the explored inputs                                           *)
(***************************************************************************)
MaxLen == 3
MaxGroups == 3
MaxSamples == 4
MaxGlyphs == 5

(***************************************************************************)
(* Generic helpers on sequences                                            *)
(***************************************************************************)
RECURSIVE Rep(_, _)
Rep(c, n) == IF n = 0 THEN <<>> ELSE <<c>> \o Rep(c, n - 1)

RECURSIVE SeqsUpTo(_, _)
SeqsUpTo(S, n) ==
    IF n = 0 THEN {<<>>}
    ELSE LET shorter == SeqsUpTo(S, n - 1)
         IN  shorter \cup {Append(s, c) : s \in {t \in shorter : Len(t) = n - 1}, c \in S}

RECURSIVE SeqsOfLen(_, _)
SeqsOfLen(S, n) ==
    IF n = 0 THEN {<<>>}
    ELSE {Append(s, c) : s \in SeqsOfLen(S, n - 1), c \in S}

Last(s) == s[Len(s)]

EndsWith(s, t) ==
    /\ Len(s) >= Len(t)
    /\ SubSeq(s, Len(s) - Len(t) + 1, Len(s)) = t

Contains(s, g) == \E i \in 1..Len(s) : s[i] = g

(***************************************************************************)
(* Constant tables                                                         *)
(***************************************************************************)
DigitChars == {"0", "1", "2", "3", "4", "5", "6", "7", "8", "9"}

DigitVal ==
    [c \in DigitChars |->
        CASE c = "0" -> 0 [] c = "1" -> 1 [] c = "2" -> 2 [] c = "3" -> 3
          [] c = "4" -> 4 [] c = "5" -> 5 [] c = "6" -> 6 [] c = "7" -> 7
          [] c = "8" -> 8 [] c = "9" -> 9]

DigitChar == <<"0", "1", "2", "3", "4", "5", "6", "7", "8", "9">>

digitMap ==
    [c \in DigitChars |->
        CASE c = "0" -> "LING" [] c = "1" -> "YI"  [] c = "2" -> "ER"
          [] c = "3" -> "SAN"  [] c = "4" -> "SI"  [] c = "5" -> "WU"
          [] c = "6" -> "LIU"  [] c = "7" -> "QI"  [] c = "8" -> "BA"
          [] c = "9" -> "JIU"]

\* units[k] of the source is units[k + 1] here; '' is the empty sequence
units == << <<>>, <<"SHI">>, <<"BAI">>, <<"QIAN">> >>

bigUnits == << <<>>, <<"WAN">>, <<"YI_E8">>, <<"ZHAO">> >>

\* bigUnits[i] of the source; an index past the table reads undefined,
\* which string concatenation renders as the text "undefined"
bigUnitAt(i) == IF i < Len(bigUnits) THEN bigUnits[i + 1] ELSE <<"undefined">>

(***************************************************************************)
(* Numbers                                                                 *)
(***************************************************************************)
RECURSIVE StripLeadingZeros(_)
StripLeadingZeros(ds) ==
    IF ds # <<>> /\ ds[1] = 0 THEN StripLeadingZeros(Tail(ds)) ELSE ds

\* num % 10000 : the value of the last four digits
Mod10000(num) ==
    LET n == Len(num)
        d(k) == IF n >= k THEN num[n - k + 1] ELSE 0
    IN  d(4) * 1000 + d(3) * 100 + d(2) * 10 + d(1)

\* Math.floor(num / 10000) : the digits above the last four
Div10000(num) == IF Len(num) <= 4 THEN <<>> ELSE SubSeq(num, 1, Len(num) - 4)

\* Number.prototype.toString of a section 0..9999
RECURSIVE toString(_)
toString(n) ==
    IF n < 10 THEN <<DigitChar[n + 1]>>
    ELSE Append(toString(n \div 10), DigitChar[(n % 10) + 1])


(***************************************************************************)
(* convertSection: a section 1..9999 without its magnitude unit            *)
(***************************************************************************)
\* the body of the for loop, from index i (0-based) on
RECURSIVE convertSectionLoop(_, _, _, _)
convertSectionLoop(str, i, res, zeroFlag) ==
    IF i >= Len(str) THEN res
    ELSE LET digit == str[i + 1]
             unit  == units[(Len(str) - 1 - i) + 1]
         IN  IF digit = "0"
             THEN convertSectionLoop(str, i + 1, res, TRUE)
             ELSE LET pre == IF zeroFlag /\ res # <<>> THEN res \o <<"LING">> ELSE res
                  IN  convertSectionLoop(str, i + 1,
                                         pre \o <<digitMap[digit]>> \o unit, FALSE)

convertSection(num) ==
    IF num = 0 THEN <<>> ELSE convertSectionLoop(toString(num), 0, <<>>, FALSE)

(***************************************************************************)
(* The three cleanup passes that end convertInteger                        *)
(***************************************************************************)
\* replace(/LING+/g, 'LING')
RECURSIVE CollapseZeros(_)
CollapseZeros(s) ==
    IF s = <<>> THEN <<>>
    ELSE IF s[1] = "LING" /\ Len(s) >= 2 /\ s[2] = "LING"
         THEN CollapseZeros(Tail(s))
         ELSE <<s[1]>> \o CollapseZeros(Tail(s))

\* replace(/LING([WAN YI_E8])/g, '$1') : matches are taken left to right and
\* do not overlap
RECURSIVE DropZeroBeforeBigUnit(_)
DropZeroBeforeBigUnit(s) ==
    IF s = <<>> THEN <<>>
    ELSE IF s[1] = "LING" /\ Len(s) >= 2 /\ s[2] \in {"WAN", "YI_E8"}
         THEN <<s[2]>> \o DropZeroBeforeBigUnit(Tail(Tail(s)))
         ELSE <<s[1]>> \o DropZeroBeforeBigUnit(Tail(s))

\* replace(/LING+$/, '')
RECURSIVE DropTrailingZeros(_)
DropTrailingZeros(s) ==
    IF s # <<>> /\ Last(s) = "LING"
    THEN DropTrailingZeros(SubSeq(s, 1, Len(s) - 1))
    ELSE s

\* the passes in another order: the second one first
Cleanup_Reordered(s) == DropTrailingZeros(CollapseZeros(DropZeroBeforeBigUnit(s)))

Cleanup(s) == DropTrailingZeros(DropZeroBeforeBigUnit(CollapseZeros(s)))

(***************************************************************************)
(* convertInteger of the core script                                       *)
(***************************************************************************)
\* convertIntegerLoop with the medial zero given to sections below 100 only
RECURSIVE convertIntegerLoop_Below100(_, _, _)
convertIntegerLoop_Below100(num, unitIndex, res) ==
    IF num = <<>> THEN res
    ELSE LET section == Mod10000(num)
             nextNum == Div10000(num)
             next    ==
                 IF section > 0
                 THEN IF nextNum # <<>> /\ section < 100
                      THEN <<"LING">> \o convertSection(section) \o bigUnitAt(unitIndex) \o res
                      ELSE convertSection(section) \o bigUnitAt(unitIndex) \o res
                 ELSE IF nextNum # <<>>
                      THEN bigUnitAt(unitIndex) \o res
                      ELSE res
         IN  convertIntegerLoop_Below100(nextNum, unitIndex + 1, next)

\* the while loop: sections are taken from the least significant one and
\* each contribution is put in front of the text built so far
RECURSIVE convertIntegerLoop(_, _, _)
convertIntegerLoop(num, unitIndex, res) ==
    IF num = <<>> THEN res
    ELSE LET section == Mod10000(num)
             nextNum == Div10000(num)
             next    ==
                 IF section > 0
                 THEN IF nextNum # <<>> /\ section < 1000
                      THEN <<"LING">> \o convertSection(section) \o bigUnitAt(unitIndex) \o res
                      ELSE convertSection(section) \o bigUnitAt(unitIndex) \o res
                 ELSE IF nextNum # <<>>
                      THEN bigUnitAt(unitIndex) \o res
                      ELSE res
         IN  convertIntegerLoop(nextNum, unitIndex + 1, next)

convertInteger(num) ==
    IF num = <<>> THEN <<"LING">>
    ELSE Cleanup(convertIntegerLoop(num, 0, <<>>))

(***************************************************************************)
(* Reading the input string                                                *)
(***************************************************************************)
Whitespace == {" ", "\t", "\n"}

\* StripSeparators dropping the commas only
StripSeparators_CommasOnly(s) == SelectSeq(s, LAMBDA c : c # ",")

\* numStr.replace(/[,\s]/g, '')
StripSeparators(s) == SelectSeq(s, LAMBDA c : c # "," /\ c \notin Whitespace)

AllDigits(s) == \A i \in 1..Len(s) : s[i] \in DigitChars

\* /^-?\d+(\.\d{0,2})?$/.test(s)
MatchesNumber(s) ==
    LET body == IF s # <<>> /\ s[1] = "-" THEN Tail(s) ELSE s
        dots == {i \in 1..Len(body) : body[i] = "."}
    IN  \/ /\ dots = {}
           /\ Len(body) >= 1
           /\ AllDigits(body)
        \/ \E d \in dots :
              /\ d >= 2
              /\ AllDigits(SubSeq(body, 1, d - 1))
              /\ Len(body) - d <= 2
              /\ AllDigits(SubSeq(body, d + 1, Len(body)))

\* the value undefined, told apart from every string
Undefined == <<"undefined">>

\* s.split('.') : parts[0] and parts[1]; parts[1] is undefined when s has no '.'
FirstDot(s) == IF \E i \in 1..Len(s) : s[i] = "."
               THEN CHOOSE i \in 1..Len(s) : s[i] = "." /\ \A j \in 1..(i - 1) : s[j] # "."
               ELSE 0

SplitHead(s) == IF FirstDot(s) = 0 THEN s ELSE SubSeq(s, 1, FirstDot(s) - 1)

SplitSecond(s) ==
    IF FirstDot(s) = 0 THEN Undefined
    ELSE LET rest == SubSeq(s, FirstDot(s) + 1, Len(s))
         IN  SplitHead(rest)

DigitValues(s) == [i \in 1..Len(s) |-> DigitVal[s[i]]]

\* parseInt(parts[0]) of a string of the numeric pattern: the magnitude,
\* with the sign kept apart
parseInt(s) ==
    LET neg  == s # <<>> /\ s[1] = "-"
        body == IF neg THEN Tail(s) ELSE s
    IN  [neg |-> neg, int |-> StripLeadingZeros(DigitValues(body))]

\* parseFloat of a string of the numeric pattern.  The pattern allows two
\* fractional digits at most, and every such value up to the 13-digit range
\* is told apart from its neighbours and from the limit by a double, so the
\* value is kept as sign, integer magnitude and hundredths.
parseFloat(s) ==
    LET frac   == SplitSecond(s)
        padded == IF frac = Undefined THEN <<"0", "0">>
                  ELSE frac \o Rep("0", 2 - Len(frac))
    IN  [neg   |-> parseInt(SplitHead(s)).neg,
         int   |-> parseInt(SplitHead(s)).int,
         cents |-> DigitVal[padded[1]] * 10 + DigitVal[padded[2]]]

IsZeroNumber(num) == num.int = <<>> /\ num.cents = 0

\* num < 0 : -0 is not below 0
IsNegative(num) == num.neg /\ ~IsZeroNumber(num)

\* comparison of two integer magnitudes
RECURSIVE DigitsGreater(_, _)
DigitsGreater(a, b) ==
    IF Len(a) # Len(b) THEN Len(a) > Len(b)
    ELSE IF a = <<>> THEN FALSE
    ELSE IF a[1] # b[1] THEN a[1] > b[1]
    ELSE DigitsGreater(Tail(a), Tail(b))

\* the 4-digit sections of the integer part of the largest amount
MaxSections == 3

\* 999999999999.99
MaxAmount == [neg |-> FALSE, int |-> Rep(9, 12), cents |-> 99]

\* ExceedsMax with >= in place of >
ExceedsMax_Inclusive(num) ==
    \/ DigitsGreater(num.int, MaxAmount.int)
    \/ num.int = MaxAmount.int /\ num.cents >= MaxAmount.cents

\* num > 999999999999.99, for num >= 0
ExceedsMax(num) ==
    \/ DigitsGreater(num.int, MaxAmount.int)
    \/ num.int = MaxAmount.int /\ num.cents > MaxAmount.cents

(***************************************************************************)
(* convertToChequeFormat of the core script                                *)
(***************************************************************************)
MsgEmpty == <<"MSG_PLEASE_ENTER_AMOUNT">>
MsgFormat == <<"MSG_INPUT_FORMAT_ERROR">>
MsgNegative == <<"MSG_NEGATIVE_NOT_SUPPORTED">>
MsgTooLarge == <<"MSG_AMOUNT_TOO_LARGE_999999999999_99">>
ZeroYuanZheng == <<"LING", "YUAN", "ZHENG">>

\* FractionText without the marker of a whole amount
FractionText_NoZheng(decimalPart) ==
    IF decimalPart # <<>>
    THEN LET padded == decimalPart \o Rep("0", 2 - Len(decimalPart))
             jiao   == padded[1]
             fen    == padded[2]
         IN  IF jiao # "0"
             THEN <<digitMap[jiao], "JIAO">>
                    \o (IF fen # "0" THEN <<digitMap[fen], "FEN">> ELSE <<>>)
             ELSE IF fen # "0" THEN <<"LING", digitMap[fen], "FEN">> ELSE <<>>
    ELSE <<>>

\* FractionText padding a single fractional digit on the left
FractionText_PadLeft(decimalPart) ==
    IF decimalPart # <<>>
    THEN LET padded == Rep("0", 2 - Len(decimalPart)) \o decimalPart
             jiao   == padded[1]
             fen    == padded[2]
         IN  IF jiao # "0"
             THEN <<digitMap[jiao], "JIAO">>
                    \o (IF fen # "0" THEN <<digitMap[fen], "FEN">> ELSE <<>>)
             ELSE IF fen # "0" THEN <<"LING", digitMap[fen], "FEN">> ELSE <<>>
    ELSE <<"ZHENG">>

\* the fractional part: decimalPart is parts[1] || ''
FractionText(decimalPart) ==
    IF decimalPart # <<>>
    THEN LET padded == decimalPart \o Rep("0", 2 - Len(decimalPart))
             jiao   == padded[1]
             fen    == padded[2]
         IN  IF jiao # "0"
             THEN <<digitMap[jiao], "JIAO">>
                    \o (IF fen # "0" THEN <<digitMap[fen], "FEN">> ELSE <<>>)
             ELSE IF fen # "0" THEN <<"LING", digitMap[fen], "FEN">> ELSE <<>>
    ELSE <<"ZHENG">>

convertToChequeFormat(raw) ==
    LET s == StripSeparators(raw)
    IN  IF s = <<>> THEN MsgEmpty
        ELSE IF ~MatchesNumber(s) THEN MsgFormat
        ELSE LET num == parseFloat(s)
             IN  IF IsNegative(num) THEN MsgNegative
                 ELSE IF ExceedsMax(num) THEN MsgTooLarge
                 ELSE IF IsZeroNumber(num) THEN ZeroYuanZheng
                 ELSE LET integerPart == parseInt(SplitHead(s)).int
                          second      == SplitSecond(s)
                          decimalPart == IF second = Undefined THEN <<>> ELSE second
                      IN  convertInteger(integerPart) \o <<"YUAN">>
                            \o FractionText(decimalPart)


(***************************************************************************)
(* The copy of the converter in test-from-csv.js                           *)
(***************************************************************************)
csv_digitMap ==
    [c \in DigitChars |->
        CASE c = "0" -> "LING" [] c = "1" -> "YI"  [] c = "2" -> "ER"
          [] c = "3" -> "CAN"  [] c = "4" -> "SI"  [] c = "5" -> "WU"
          [] c = "6" -> "LIU"  [] c = "7" -> "QI"  [] c = "8" -> "BA"
          [] c = "9" -> "JIU"]

csv_units == << <<>>, <<"SHI">>, <<"BAI">>, <<"QIAN">> >>

csv_bigUnits == << <<>>, <<"WAN">>, <<"YI_E8">>, <<"ZHAO">> >>

csv_bigUnitAt(i) == IF i < Len(csv_bigUnits) THEN csv_bigUnits[i + 1] ELSE <<"undefined">>

RECURSIVE csv_convertSectionLoop(_, _, _, _)
csv_convertSectionLoop(str, i, res, zeroFlag) ==
    IF i >= Len(str) THEN res
    ELSE LET digit == str[i + 1]
             unit  == csv_units[(Len(str) - 1 - i) + 1]
         IN  IF digit = "0"
             THEN csv_convertSectionLoop(str, i + 1, res, TRUE)
             ELSE LET pre == IF zeroFlag /\ res # <<>> THEN res \o <<"LING">> ELSE res
                  IN  csv_convertSectionLoop(str, i + 1,
                                             pre \o <<csv_digitMap[digit]>> \o unit, FALSE)

csv_convertSection(num) ==
    IF num = 0 THEN <<>> ELSE csv_convertSectionLoop(toString(num), 0, <<>>, FALSE)

\* the sections array: sections[k] of the source is csv_sections(num)[k + 1]
RECURSIVE csv_sections(_)
csv_sections(num) ==
    IF num = <<>> THEN <<>>
    ELSE <<Mod10000(num)>> \o csv_sections(Div10000(num))

\* the for loop, from index i (0-based) down to 0
RECURSIVE csv_convertIntegerLoop(_, _, _)
csv_convertIntegerLoop(sections, i, res) ==
    IF i < 0 THEN res
    ELSE LET section == sections[i + 1]
             hasNonZeroAfter == \E j \in 0..(i - 1) : sections[j + 1] > 0
             next ==
                 IF section > 0
                 THEN (IF i < Len(sections) - 1 /\ section < 1000 /\ res # <<>>
                       THEN res \o <<"LING">> ELSE res)
                        \o csv_convertSection(section) \o csv_bigUnitAt(i)
                 ELSE IF /\ i > 0
                         /\ res # <<>>
                         /\ hasNonZeroAfter
                         /\ sections[i] > 0
                         /\ sections[i] < 1000
                      THEN res \o <<"LING">>
                      ELSE res
         IN  csv_convertIntegerLoop(sections, i - 1, next)

csv_convertInteger(num) ==
    IF num = <<>> THEN <<"LING">>
    ELSE Cleanup(csv_convertIntegerLoop(csv_sections(num), Len(csv_sections(num)) - 1, <<>>))

csv_MsgTooLarge == <<"MSG_EXCEEDS_MAX_SUPPORTED_99999_99">>

\* num >= 100000, for num >= 0
csv_AtLeastLimit(num) == Len(num.int) >= 6

csv_FractionText(decimalPart) ==
    IF decimalPart # <<>>
    THEN LET padded == decimalPart \o Rep("0", 2 - Len(decimalPart))
             jiao   == padded[1]
             fen    == padded[2]
         IN  IF jiao = "0" /\ fen = "0" THEN <<"ZHENG">>
             ELSE IF jiao # "0"
             THEN <<csv_digitMap[jiao], "JIAO">>
                    \o (IF fen # "0" THEN <<csv_digitMap[fen], "FEN">> ELSE <<>>)
             ELSE IF fen # "0" THEN <<"LING", csv_digitMap[fen], "FEN">> ELSE <<>>
    ELSE <<"ZHENG">>

csv_convertToChequeFormat(raw) ==
    LET s == StripSeparators(raw)
    IN  IF s = <<>> THEN MsgEmpty
        ELSE IF ~MatchesNumber(s) THEN MsgFormat
        ELSE LET num == parseFloat(s)
             IN  IF IsNegative(num) THEN MsgNegative
                 ELSE IF csv_AtLeastLimit(num) THEN csv_MsgTooLarge
                 ELSE IF IsZeroNumber(num) THEN ZeroYuanZheng
                 ELSE LET integerPart == parseInt(SplitHead(s)).int
                          second      == SplitSecond(s)
                          decimalPart == IF second = Undefined THEN <<>> ELSE second
                      IN  csv_convertInteger(integerPart) \o <<"YUAN">>
                            \o csv_FractionText(decimalPart)

(***************************************************************************)
(* Explored inputs                                                         *)
(***************************************************************************)
\* free-form text: every string up to MaxLen characters
RawChars == {"0", "1", "-", ".", ",", " ", "a"}
FreeStrings == SeqsUpTo(RawChars, MaxLen)

\* the decimal string of a Number
DecimalString(ds) ==
    IF StripLeadingZeros(ds) = <<>> THEN <<"0">>
    ELSE [i \in 1..Len(StripLeadingZeros(ds)) |-> DigitChar[StripLeadingZeros(ds)[i] + 1]]

\* the decimal strings of the integers of MaxGroups sections whose digits
\* are 0 or 1: every pattern of zero and non-zero digits
IntegerInputs == {DecimalString(ds) : ds \in SeqsOfLen({0, 1}, 4 * MaxGroups)}

\* amounts around the limits, with and without sign and fractional digits
EdgeIntegers ==
    { <<"0">>, <<"5">>, <<"3">>, <<"0", "0", "7">>,
      <<"9", "9", "9", "9", "9">>, <<"1", "0", "0", "0", "0", "0">>,
      <<"1", "0", "0", "0", "0", "0", "0", "0", "0">>,
      Rep("9", 12), <<"1">> \o Rep("0", 12), Rep("0", 12) \o <<"1">> }
Signs == { <<>>, <<"-">> }
Fractions ==
    { <<>>, <<".">>, <<".", "0">>, <<".", "5">>, <<".", "0", "0">>,
      <<".", "0", "5">>, <<".", "5", "0">>, <<".", "9", "9">> }
DecimalInputs == {sg \o i \o f : sg \in Signs, i \in EdgeIntegers, f \in Fractions}

Inputs == FreeStrings \cup IntegerInputs \cup DecimalInputs

\* pairs of amounts: sections drawn from samples of each shape
SampleList ==
    << <<0, 0, 0, 0>>, <<0, 0, 0, 1>>, <<0, 0, 2, 0>>, <<1, 0, 0, 1>>,
       <<0, 0, 0, 2>>, <<0, 3, 0, 0>> >>
SectionSamples == {SampleList[i] : i \in 1..MaxSamples}
RECURSIVE SampleIntegers(_)
SampleIntegers(k) ==
    IF k = 0 THEN {<<>>}
    ELSE {g \o r : g \in SectionSamples, r \in SampleIntegers(k - 1)}
PairFractions == { <<>>, <<".", "0", "0">>, <<".", "1">>, <<".", "0", "1">> }
AmountInputs ==
    {DecimalString(ds) \o f : ds \in SampleIntegers(MaxSections), f \in PairFractions}

\* strings over the glyphs the cleanup passes tell apart
GlyphChoices == {"LING", "WAN", "YI_E8", "YI", "SHI"}
GlyphStrings == SeqsUpTo(GlyphChoices, MaxGlyphs)

\* the amount an accepted input denotes, and its order
Amount(s) == parseFloat(StripSeparators(s))
AmountLess(a, b) ==
    \/ DigitsGreater(b.int, a.int)
    \/ a.int = b.int /\ a.cents < b.cents

(***************************************************************************)
(* State machine                                                           *)
(***************************************************************************)
None == <<>>

\* one call of the core converter on the text of the input box
Convert ==
    /\ ~called
    /\ result' = convertToChequeFormat(numStr)
    /\ called' = TRUE
    /\ UNCHANGED <<numStr, actual, tested, other, otherResult, otherCalled,
                   text, once, twice, passes>>

\* the harness runs its copy of the converter on a test case's input
RunTest ==
    /\ ~tested
    /\ actual' = csv_convertToChequeFormat(numStr)
    /\ tested' = TRUE
    /\ UNCHANGED <<numStr, result, called, other, otherResult, otherCalled,
                   text, once, twice, passes>>

\* a second call of the core converter, on another amount
ConvertOther ==
    /\ called
    /\ ~otherCalled
    /\ otherResult' = convertToChequeFormat(other)
    /\ otherCalled' = TRUE
    /\ UNCHANGED <<numStr, result, called, actual, tested, other,
                   text, once, twice, passes>>

\* the cleanup passes applied to a text, and applied again to their result
ApplyCleanup ==
    /\ passes < 2
    /\ passes' = passes + 1
    /\ once'  = IF passes = 0 THEN Cleanup(text) ELSE once
    /\ twice' = IF passes = 1 THEN Cleanup(once) ELSE twice
    /\ UNCHANGED <<numStr, result, called, actual, tested,
                   other, otherResult, otherCalled, text>>

Idle ==
    /\ result = None /\ called = FALSE /\ actual = None /\ tested = FALSE
    /\ otherResult = None /\ otherCalled = FALSE
    /\ once = None /\ twice = None /\ passes = 0

\* the converter and the harness on one input
Init ==
    /\ numStr \in Inputs
    /\ other = None
    /\ text = <<"unused">>
    /\ Idle
Next == Convert \/ RunTest
Spec == Init /\ [][Next]_vars

\* the converter on two amounts, the first below the second
InitPair ==
    /\ numStr \in AmountInputs
    /\ other \in {o \in AmountInputs : AmountLess(Amount(numStr), Amount(o))}
    /\ text = <<"unused">>
    /\ Idle
NextPair == Convert \/ ConvertOther
SpecPair == InitPair /\ [][NextPair]_vars

\* the cleanup passes on any text over the glyphs
InitCleanup ==
    /\ numStr = <<"unused">>
    /\ other = None
    /\ text \in GlyphStrings
    /\ Idle
NextCleanup == ApplyCleanup
SpecCleanup == InitCleanup /\ [][NextCleanup]_vars


(***************************************************************************)
(* Vocabulary of the claims                                                *)
(***************************************************************************)
Str100000000 == <<"1", "0", "0", "0", "0", "0", "0", "0", "0">>
Str10001 == <<"1", "0", "0", "0", "1">>

\* s is the decimal string of an integer 0..999,999,999,999
IsDecimalInteger(s) ==
    /\ Len(s) \in 1..12
    /\ AllDigits(s)
    /\ (Len(s) > 1 => s[1] # "0")

\* the integer an integer string denotes, and its k-th section from the right
IntegerOf(s) == StripLeadingZeros(DigitValues(s))
RECURSIVE GroupOf(_, _)
GroupOf(num, k) == IF k = 0 THEN Mod10000(num) ELSE GroupOf(Div10000(num), k - 1)

\* the index of the first occurrence of glyph g in s, 0 when there is none
IndexOf(s, g) ==
    IF Contains(s, g)
    THEN CHOOSE i \in 1..Len(s) : s[i] = g /\ \A j \in 1..(i - 1) : s[j] # g
    ELSE 0

\* s is a well-formed amount: after separators are dropped, an optional
\* sign, digits, and at most two fractional digits
Bare(s) == SelectSeq(s, LAMBDA c : c \notin {",", " ", "\t", "\n"})
HasSign(s) == Bare(s) # <<>> /\ Bare(s)[1] = "-"
Unsigned(s) == IF HasSign(s) THEN Tail(Bare(s)) ELSE Bare(s)
DotCount(s) == Cardinality({i \in 1..Len(s) : s[i] = "."})
IntegerDigits(s) ==
    IF DotCount(s) = 0 THEN s ELSE SubSeq(s, 1, IndexOf(s, ".") - 1)
FractionDigits(s) ==
    IF DotCount(s) = 0 THEN <<>> ELSE SubSeq(s, IndexOf(s, ".") + 1, Len(s))
WellFormed(s) ==
    /\ DotCount(Unsigned(s)) <= 1
    /\ Len(IntegerDigits(Unsigned(s))) >= 1
    /\ Len(FractionDigits(Unsigned(s))) <= 2
    /\ \A i \in 1..Len(Unsigned(s)) : Unsigned(s)[i] \in DigitChars \cup {"."}

\* magnitude of a well-formed amount
NonZeroDigit(s) == \E i \in 1..Len(s) : s[i] \in DigitChars \ {"0"}
ZeroAmount(s) == ~NonZeroDigit(Unsigned(s))
HasNonZeroFraction(s) == NonZeroDigit(FractionDigits(Unsigned(s)))
\* above 999,999,999,999.99: with two fractional digits at most, an integer
\* part of 13 or more significant digits
AboveMaximum(s) == Len(IntegerOf(IntegerDigits(Unsigned(s)))) >= 13
Accepted(s) == WellFormed(s) /\ ~HasSign(s) /\ ~AboveMaximum(s)

FixedLiterals == {MsgEmpty, MsgFormat, MsgNegative, MsgTooLarge, ZeroYuanZheng}

NoDoubleZero(s) == \A i \in 1..(Len(s) - 1) : ~(s[i] = "LING" /\ s[i + 1] = "LING")
NoZeroBeforeBigUnit(s) ==
    \A i \in 1..(Len(s) - 1) : ~(s[i] = "LING" /\ s[i + 1] \in {"WAN", "YI_E8"})

(***************************************************************************)
(* Claims                                                                  *)
(***************************************************************************)

\* C1: for the decimal string of every integer 0..999,999,999,999 the
\* returned text ends in YUAN ZHENG, holds no two consecutive LING and no
\* LING immediately before WAN or YI_E8.
C1_IntegerOutputShape ==
    (called /\ IsDecimalInteger(numStr)) =>
        /\ EndsWith(result, <<"YUAN", "ZHENG">>)
        /\ NoDoubleZero(result)
        /\ NoZeroBeforeBigUnit(result)

C1_Witness ==
    /\ called
    /\ IsDecimalInteger(numStr)
    /\ Len(numStr) = 12
    /\ GroupOf(IntegerOf(numStr), 1) \in 1..999
    /\ GroupOf(IntegerOf(numStr), 0) \in 1..999
    /\ Contains(result, "LING")

\* C2: for every integer 1..999,999,999,999 the glyph WAN (resp. YI_E8) is in
\* the output only if the WAN section (resp. YI_E8 section) is non-zero, and
\* 100000000 gives YI YI_E8 YUAN ZHENG.
C2_UnitOnlyForNonZeroGroup ==
    (called /\ IsDecimalInteger(numStr) /\ numStr # <<"0">>) =>
        /\ Contains(result, "WAN") => GroupOf(IntegerOf(numStr), 1) # 0
        /\ Contains(result, "YI_E8") => GroupOf(IntegerOf(numStr), 2) # 0
        /\ numStr = Str100000000 => result = <<"YI", "YI_E8", "YUAN", "ZHENG">>

\* C3: for every accepted non-zero amount the output ends with ZHENG exactly
\* when the amount has no non-zero fractional digit.
C3_ZhengIffNoFraction ==
    (called /\ Accepted(numStr) /\ ~ZeroAmount(numStr)) =>
        (Last(result) = "ZHENG" <=> ~HasNonZeroFraction(numStr))

\* C4: for every input string the call returns a non-empty string that is one
\* of the five fixed literals or a cheque phrase holding YUAN (never the text
\* of an undefined value); the input-empty literal is returned exactly for
\* the inputs made of separators only, and the results of the two kinds do
\* not overlap: a phrase of a non-zero amount is none of the literals.
C4_Total ==
    called =>
        /\ result # <<>>
        /\ result \in FixedLiterals \/ Contains(result, "YUAN")
        /\ ~Contains(result, "undefined")
        /\ result = MsgEmpty <=> Bare(numStr) = <<>>
        /\ result = MsgFormat <=> (Bare(numStr) # <<>> /\ ~WellFormed(numStr))
        /\ (Accepted(numStr) /\ ~ZeroAmount(numStr)) => result \notin FixedLiterals

C4_Witness ==
    /\ called
    /\ numStr = <<" ", ",", " ">>
    /\ result = MsgEmpty

\* C5: every well-formed input with a leading '-' is rejected with the
\* negative-amount literal, whatever its magnitude.
C5_NegativeFirst ==
    (called /\ WellFormed(numStr) /\ HasSign(numStr)) => result = MsgNegative

\* C6: for every well-formed unsigned input the too-large literal is returned
\* exactly when the amount is above 999,999,999,999.99; 999999999999.99 is
\* converted and 1000000000000 is rejected.
C6_TooLargeIffAboveMax ==
    (called /\ WellFormed(numStr) /\ ~HasSign(numStr)) =>
        /\ result = MsgTooLarge <=> AboveMaximum(numStr)
        /\ numStr = Rep("9", 12) \o <<".", "9", "9">> => Contains(result, "YUAN")
        /\ numStr = <<"1">> \o Rep("0", 12) => result = MsgTooLarge

C6_Witness ==
    /\ called
    /\ numStr = Rep("9", 12) \o <<".", "9", "9">>
    /\ EndsWith(result, <<"YUAN", "JIU", "JIAO", "JIU", "FEN">>)

\* C7: two accepted inputs that denote different amounts give different
\* outputs.
C7_Injective ==
    (/\ called /\ otherCalled
     /\ Accepted(numStr) /\ Accepted(other)
     /\ AmountLess(Amount(numStr), Amount(other))) => result # otherResult

C7_Witness ==
    /\ called /\ otherCalled
    /\ numStr = <<"1", "0", "0", "0", "1">>
    /\ other = <<"1", "0", "0", "0", "1", "0", "0", "0", "0">>
    /\ result # otherResult

\* C8: for every integer 1..999,999,999,999 and every non-zero section that
\* is not the most significant one, the section's text stands right before
\* its unit (WAN, or YUAN for the lowest section) and is immediately
\* preceded by exactly one LING if and only if the section is below 1000;
\* 10001 gives YI WAN LING YI YUAN ZHENG.
MedialZeroAt(k, endGlyph) ==
    LET num == IntegerOf(numStr)
        g   == GroupOf(num, k)
        t   == convertSection(g)
        e   == IndexOf(result, endGlyph)
        b   == e - Len(t)
    IN  (g # 0 /\ Len(num) > 4 * (k + 1)) =>
            /\ e > 0
            /\ b >= 2
            /\ SubSeq(result, b, e - 1) = t
            /\ result[b - 1] = "LING" <=> g < 1000
            /\ result[b - 1] = "LING" => (b >= 3 /\ result[b - 2] # "LING")

C8_MedialZero ==
    (called /\ IsDecimalInteger(numStr) /\ numStr # <<"0">>) =>
        /\ MedialZeroAt(0, "YUAN")
        /\ MedialZeroAt(1, "WAN")
        /\ numStr = Str10001 => result = <<"YI", "WAN", "LING", "YI", "YUAN", "ZHENG">>

C8_Witness ==
    /\ called
    /\ numStr = Str10001
    /\ result = <<"YI", "WAN", "LING", "YI", "YUAN", "ZHENG">>

\* C9: the three cleanup passes, applied in order to any text over the
\* glyphs, give a text that a second application leaves unchanged.
C9_CleanupIdempotent == passes = 2 => twice = once

C9_Witness ==
    /\ passes = 2
    /\ text = <<"YI", "LING", "LING", "WAN", "LING">>
    /\ once = <<"YI", "WAN">>
    /\ twice = once

\* C10: the copy of the converter run by the harness returns, for every
\* input, the string the core converter returns.
C10_CopyEquivalent == (called /\ tested) => result = actual

=============================================================================
